---------------------------- MODULE Spec2Model ----------------------------
(***************************************************************************)
(* A model of tccc_simple.py: the keyword retrieval pipeline               *)
(* (SimpleTextSearch._create_chunks and search_keywords), the generation   *)
(* client (SimpleTCCCLLM.query) and the command line shell                 *)
(* (SimpleTCCCCLI, main).                                                  *)
(*                                                                         *)
(* A Python str is a sequence of one-character strings, so that len,       *)
(* strip, split, count, lower, replace, startswith and slicing are         *)
(* computed character by character as Python computes them.                *)
(***************************************************************************)
EXTENDS Integers, Sequences, FiniteSets, TLC

VARIABLES
    \* SimpleTextSearch._create_chunks
    text,             \* the text argument
    chunk_size,       \* the chunk_size argument
    sentences,        \* re.split(r'[.!?]+', text)
    si,               \* position of the for loop in sentences
    current_chunk,    \* the running buffer
    chunk_id,         \* the next id
    chunks,           \* the list being built, then self.chunks
    cpc,              \* position in _create_chunks
    held,             \* history: the sentences put in current_chunk
    chunk_sentences,  \* history: for each emitted chunk, the sentences it holds
    \* SimpleTextSearch.search_keywords
    query,            \* the query argument
    max_results,      \* the max_results argument
    query_words,      \* set(query.lower().split())
    ki,               \* position of the for loop in self.chunks
    scored_chunks,    \* the list being built
    results,          \* the returned list
    spc,              \* position in search_keywords
    \* main and SimpleTCCCCLI
    args_query,       \* args.query, the list of positional arguments
    args_urgent,      \* args.urgent
    pdf,              \* what extract_text_simple finds at args.pdf
    search_engine,    \* cli.search_engine: "None" or "SimpleTextSearch",
                      \* whose text and chunks are the variables above
    mpc,              \* position in main
    exit_code,        \* the exit code, once mpc = "exited"
    served,           \* history: number of calls of SimpleTCCCCLI.query
    search_calls,     \* history: number of calls of search_keywords
    generation_calls, \* history: number of calls of requests.post
    builds,           \* history: number of calls of _create_chunks
    last              \* history: what the last call of query did

mvars == <<args_query, args_urgent, pdf, search_engine, mpc, exit_code,
           served, search_calls, generation_calls, builds, last>>

cvars == <<text, chunk_size, sentences, si, current_chunk, chunk_id, chunks,
           cpc, held, chunk_sentences>>

svars == <<query, max_results, query_words, ki, scored_chunks, results, spc>>

vars == <<cvars, svars, mvars>>

-----------------------------------------------------------------------------
(* Bounds of the model.                                                    *)

MaxPieces == 4
MaxChunkSize == 3
MaxSearchPieces == 4
MaxResults == 3
SearchChunkSize == 3
MaxQueries == 2
PageFill == 500

-----------------------------------------------------------------------------
(* Python str operations on sequences of characters.                       *)

\* "".join(parts)
RECURSIVE Flatten(_)
Flatten(parts) ==
    IF parts = <<>> THEN <<>> ELSE Head(parts) \o Flatten(Tail(parts))

Min(S) == CHOOSE x \in S : \A y \in S : x <= y

Max(S) == CHOOSE x \in S : \A y \in S : x >= y

\* s[:n], for n >= 0
Take(s, n) ==
    IF n >= Len(s) THEN s ELSE SubSeq(s, 1, n)

\* s[n:], for n >= 0
Drop(s, n) ==
    IF n >= Len(s) THEN <<>> ELSE SubSeq(s, n + 1, Len(s))

\* s.startswith(p)
StartsWith(s, p) ==
    Len(p) <= Len(s) /\ SubSeq(s, 1, Len(p)) = p

\* The positions at which p occurs in s.
Occurrences(s, p) ==
    {i \in 1..(Len(s) - Len(p) + 1) : \A j \in 1..Len(p) : s[i + j - 1] = p[j]}

\* p in s, for strings
Contains(s, p) == Occurrences(s, p) # {}

\* Whitespace as str.strip() and str.split() see it.
IsSpace(c) == c \in {" ", "\t", "\n", "\r", "\f"}

\* s.strip(): from the first to the last character that is not whitespace.
Strip(s) ==
    LET keep == {i \in 1..Len(s) : ~IsSpace(s[i])}
    IN IF keep = {} THEN <<>> ELSE SubSeq(s, Min(keep), Max(keep))

\* s.split(sep), sep non-empty: cut at the occurrences of sep found left to
\* right; empty pieces are kept.
RECURSIVE SplitOn(_, _)
SplitOn(s, sep) ==
    LET occ == Occurrences(s, sep)
    IN IF occ = {} THEN <<s>>
       ELSE <<SubSeq(s, 1, Min(occ) - 1)>>
                \o SplitOn(Drop(s, Min(occ) + Len(sep) - 1), sep)

\* The character class [.!?] of the pattern of line 70.
IsTerminator(c) == c \in {".", "!", "?"}

\* re.split(r'[.!?]+', text): cut at every maximal run of terminators; the
\* pieces before a leading run and after a trailing run are empty strings.
RECURSIVE ReSplit(_)
ReSplit(s) ==
    LET term == {i \in 1..Len(s) : IsTerminator(s[i])}
    IN IF term = {} THEN <<s>>
       ELSE LET first == Min(term)
                after == {j \in first..Len(s) : ~IsTerminator(s[j])}
            IN IF after = {}
               THEN <<SubSeq(s, 1, first - 1), <<>>>>
               ELSE <<SubSeq(s, 1, first - 1)>>
                        \o ReSplit(Drop(s, Min(after) - 1))

-----------------------------------------------------------------------------
(* String literals of the source.                                          *)

\* "\\n" of line 80: a backslash followed by the letter n.
NewlineLit == <<"\\", "n">>

\* "--- Page" of line 81
PageToken == <<"-", "-", "-", " ", "P", "a", "g", "e">>

\* "Unknown page" of line 88
UnknownPage == <<"U", "n", "k", "n", "o", "w", "n", " ", "p", "a", "g", "e">>

\* "Final chunk" of line 100
FinalChunk == <<"F", "i", "n", "a", "l", " ", "c", "h", "u", "n", "k">>

\* The number of lines of a chunk scanned for a page marker (line 80).
PageScanLines == 10

-----------------------------------------------------------------------------
(* SimpleTextSearch._create_chunks                                         *)

\* Lines 79-83: the first of the first 10 lines holding "--- Page",
\* stripped; <<>> stands for None (line 88 reads it only through `or`).
RECURSIVE FirstPageLine(_)
FirstPageLine(lines) ==
    IF lines = <<>> THEN <<>>
    ELSE IF Contains(Head(lines), PageToken) THEN Strip(Head(lines))
    ELSE FirstPageLine(Tail(lines))

PageMatch(buffer) ==
    FirstPageLine(Take(SplitOn(buffer, NewlineLit), PageScanLines))

\* Line 88: page_match or "Unknown page"
PageInfo(buffer) ==
    IF PageMatch(buffer) # <<>> THEN PageMatch(buffer) ELSE UnknownPage

\* A variant of line 77 that measures the sentence alone.
OverflowsSentenceOnly(buffer, sentence, size) ==
    Len(sentence) > size /\ buffer # <<>>

\* Line 77: len(current_chunk + sentence) > chunk_size and current_chunk
Overflows(buffer, sentence, size) ==
    Len(buffer \o sentence) > size /\ buffer # <<>>

\* Lines 85-89 and 97-101: the dict appended to chunks.
Chunk(buffer, id, page) ==
    [text |-> Strip(buffer), chunk_id |-> id, page_info |-> page]

\* A variant of lines 85-91 that starts the next buffer empty.
CloseChunkDropsSentence(st, sentence) ==
    [current_chunk |-> <<>>,
     chunk_id |-> st.chunk_id + 1,
     chunks |-> Append(st.chunks,
                       Chunk(st.current_chunk, st.chunk_id,
                             PageInfo(st.current_chunk)))]

\* Lines 85-91: close the buffer and start the next one with the sentence.
CloseChunk(st, sentence) ==
    [current_chunk |-> sentence,
     chunk_id |-> st.chunk_id + 1,
     chunks |-> Append(st.chunks,
                       Chunk(st.current_chunk, st.chunk_id,
                             PageInfo(st.current_chunk)))]

\* Line 93: current_chunk += sentence + "."
AppendSentence(st, sentence) ==
    [st EXCEPT !.current_chunk = st.current_chunk \o sentence \o <<".">>]

\* Lines 77-93: one iteration of the for loop.
LoopBody(st, sentence, size) ==
    IF Overflows(st.current_chunk, sentence, size)
    THEN CloseChunk(st, sentence)
    ELSE AppendSentence(st, sentence)

\* Lines 96-101: the final chunk, from a buffer that strips to non-empty.
FinalChunks(st) ==
    IF Strip(st.current_chunk) # <<>>
    THEN Append(st.chunks, Chunk(st.current_chunk, st.chunk_id, FinalChunk))
    ELSE st.chunks

\* Lines 76-93: the for loop over the sentences.
RECURSIVE ChunkLoop(_, _, _)
ChunkLoop(st, rest, size) ==
    IF rest = <<>> THEN st
    ELSE ChunkLoop(LoopBody(st, Head(rest), size), Tail(rest), size)

\* Lines 68-103: _create_chunks(text, chunk_size)
CreateChunks(t, size) ==
    FinalChunks(ChunkLoop([current_chunk |-> <<>>, chunk_id |-> 0,
                           chunks |-> <<>>],
                          ReSplit(t), size))

-----------------------------------------------------------------------------
(* SimpleTextSearch.search_keywords                                        *)

UpperLetters ==
    <<"A", "B", "C", "D", "E", "F", "G", "H", "I", "J", "K", "L", "M",
      "N", "O", "P", "Q", "R", "S", "T", "U", "V", "W", "X", "Y", "Z">>

LowerLetters ==
    <<"a", "b", "c", "d", "e", "f", "g", "h", "i", "j", "k", "l", "m",
      "n", "o", "p", "q", "r", "s", "t", "u", "v", "w", "x", "y", "z">>

LowerChar(c) ==
    IF \E i \in 1..Len(UpperLetters) : UpperLetters[i] = c
    THEN LowerLetters[CHOOSE i \in 1..Len(UpperLetters) : UpperLetters[i] = c]
    ELSE c

\* s.lower()
Lower(s) == [i \in 1..Len(s) |-> LowerChar(s[i])]

\* s.split(): the maximal runs of characters that are not whitespace.
RECURSIVE Words(_)
Words(s) ==
    LET ink == {i \in 1..Len(s) : ~IsSpace(s[i])}
    IN IF ink = {} THEN <<>>
       ELSE LET first == Min(ink)
                gaps == {j \in first..Len(s) : IsSpace(s[j])}
            IN IF gaps = {}
               THEN <<SubSeq(s, first, Len(s))>>
               ELSE <<SubSeq(s, first, Min(gaps) - 1)>>
                        \o Words(Drop(s, Min(gaps)))

Range(f) == {f[i] : i \in DOMAIN f}

\* Line 107: set(query.lower().split())
QueryWords(q) == Range(Words(Lower(q)))

\* s.count(w), w non-empty: the occurrences found left to right, each
\* search starting after the previous occurrence.
RECURSIVE Count(_, _)
Count(s, w) ==
    LET occ == Occurrences(s, w)
    IN IF occ = {} THEN 0
       ELSE 1 + Count(Drop(s, Min(occ) + Len(w) - 1), w)

\* Lines 115-116: the sum of chunk_text.count(word) over the query words.
RECURSIVE KeywordScore(_, _)
KeywordScore(chunk_text, words) ==
    IF words = {} THEN 0
    ELSE LET w == CHOOSE x \in words : TRUE
         IN Count(chunk_text, w) + KeywordScore(chunk_text, words \ {w})

\* Line 119
MedicalTerms ==
    {<<"h", "e", "m", "o", "r", "r", "h", "a", "g", "e">>,
     <<"b", "l", "e", "e", "d", "i", "n", "g">>,
     <<"t", "o", "u", "r", "n", "i", "q", "u", "e", "t">>,
     <<"a", "i", "r", "w", "a", "y">>,
     <<"b", "r", "e", "a", "t", "h", "i", "n", "g">>,
     <<"c", "i", "r", "c", "u", "l", "a", "t", "i", "o", "n">>,
     <<"s", "h", "o", "c", "k">>,
     <<"w", "o", "u", "n", "d">>}

\* Line 122: the score added for a medical term of the chunk and the query.
TermBoost == 5

\* Lines 120-121: the terms found in the chunk text and in query.lower().
BoostedTerms(chunk_text, q) ==
    {t \in MedicalTerms : Contains(chunk_text, t) /\ Contains(Lower(q), t)}

\* Lines 111-122: the score of a chunk.
Score(chunk, q, words) ==
    KeywordScore(Lower(chunk.text), words)
        + TermBoost * Cardinality(BoostedTerms(Lower(chunk.text), q))

\* Lines 125-130: the dict appended to scored_chunks.
ScoredChunk(chunk, score) ==
    [text |-> chunk.text, page_info |-> chunk.page_info, score |-> score,
     chunk_id |-> chunk.chunk_id]

\* A variant of lines 124-130 that also keeps the chunks of score 0.
KeepScoredAlways(scored, chunk, q, words) ==
    LET score == Score(chunk, q, words)
    IN Append(scored, ScoredChunk(chunk, score))

\* Lines 111-130: one iteration of the for loop.
KeepScored(scored, chunk, q, words) ==
    LET score == Score(chunk, q, words)
    IN IF score > 0 THEN Append(scored, ScoredChunk(chunk, score)) ELSE scored

\* Lines 110-130: the for loop over self.chunks.
RECURSIVE ScoreLoop(_, _, _, _)
ScoreLoop(scored, rest, q, words) ==
    IF rest = <<>> THEN scored
    ELSE ScoreLoop(KeepScored(scored, Head(rest), q, words), Tail(rest),
                   q, words)

\* A variant of the sort of line 133 that puts an entry before those of
\* equal score.
InsertByScoreBeforeEqual(sorted, x) ==
    LET n == Cardinality({i \in 1..Len(sorted) : sorted[i].score > x.score})
    IN Take(sorted, n) \o <<x>> \o Drop(sorted, n)

\* list.sort(key=score, reverse=True) is stable: an entry goes after the
\* entries of greater or equal score that precede it in the list.
InsertByScore(sorted, x) ==
    LET n == Cardinality({i \in 1..Len(sorted) : sorted[i].score >= x.score})
    IN Take(sorted, n) \o <<x>> \o Drop(sorted, n)

\* Line 133: scored_chunks.sort(key=lambda x: x["score"], reverse=True)
RECURSIVE SortByScore(_, _)
SortByScore(sorted, rest) ==
    IF rest = <<>> THEN sorted
    ELSE SortByScore(InsertByScore(sorted, Head(rest)), Tail(rest))

\* Lines 133-134: sort, then scored_chunks[:max_results]
TopResults(scored, n) == Take(SortByScore(<<>>, scored), n)

\* Lines 105-134: search_keywords(query, max_results) on self.chunks
SearchKeywords(cs, q, n) ==
    TopResults(ScoreLoop(<<>>, cs, q, QueryWords(q)), n)

-----------------------------------------------------------------------------
(* SimpleTCCCProcessor.extract_text_simple                                 *)

DigitChars == <<"0", "1", "2", "3", "4", "5", "6", "7", "8", "9">>

\* str(n), for n >= 0
RECURSIVE Digits(_)
Digits(n) ==
    IF n < 10 THEN <<DigitChars[n + 1]>>
    ELSE Digits(n \div 10) \o <<DigitChars[(n % 10) + 1]>>

\* Line 45: f"\\n--- Page {page_num + 1} ---\\n{page_text}"
PageBlock(page_num, page_text) ==
    NewlineLit \o PageToken \o <<" ">> \o Digits(page_num + 1)
        \o <<" ", "-", "-", "-">> \o NewlineLit \o page_text

\* Lines 39-45: the text of the pages from page_num on.
RECURSIVE PagesText(_, _)
PagesText(pages, page_num) ==
    IF pages = <<>> THEN <<>>
    ELSE PageBlock(page_num, Head(pages))
             \o PagesText(Tail(pages), page_num + 1)

\* Lines 29-57.  pdf.exists is os.path.exists(pdf_path); pdf.fitz is "ok",
\* "ImportError" (line 52) or "Exception" (line 55); pdf.pages are the
\* texts of the pages.
ExtractTextSimple(p) ==
    IF ~p.exists THEN [raised |-> "FileNotFoundError", text |-> <<>>]
    ELSE IF p.fitz = "ok" THEN [raised |-> "", text |-> PagesText(p.pages, 0)]
    ELSE [raised |-> "", text |-> <<>>]

-----------------------------------------------------------------------------
(* SimpleTCCCLLM.query                                                     *)

\* Line 139
Host == "http://127.0.0.1:11434"

\* Line 139
Model == "llama3.2:3b"

\* Lines 147-150
SystemPrompt ==
    "You are a Tactical Combat Casualty Care (TCCC) medical assistant for emergency field conditions.\nProvide concise, accurate, life-saving medical guidance.\nUse bullet points for procedures. State limitations clearly.\nFocus on immediate actions for combat casualties."

\* Line 173
NumPredict == 400

\* Line 174
Temperature == "0.2"

\* Line 177
Timeout == 30

\* Lines 153-158
PromptContextHead ==
    <<"T", "C", "C", "C", " ", "H", "a", "n", "d", "b", "o", "o", "k", " ",
      "C", "o", "n", "t", "e", "x", "t", ":", "\n">>

PromptContextMid ==
    <<"\n", "\n", "E", "m", "e", "r", "g", "e", "n", "c", "y", " ", "Q",
      "u", "e", "s", "t", "i", "o", "n", ":", " ">>

PromptContextTail ==
    <<"\n", "\n", "B", "a", "s", "e", "d", " ", "o", "n", " ", "t", "h",
      "e", " ", "h", "a", "n", "d", "b", "o", "o", "k", " ", "c", "o", "n",
      "t", "e", "x", "t", " ", "a", "b", "o", "v", "e", ",", " ", "p", "r",
      "o", "v", "i", "d", "e", " ", "i", "m", "m", "e", "d", "i", "a", "t",
      "e", " ", "f", "i", "e", "l", "d", " ", "g", "u", "i", "d", "a", "n",
      "c", "e", " ", "u", "s", "i", "n", "g", " ", "b", "u", "l", "l", "e",
      "t", " ", "p", "o", "i", "n", "t", "s", " ", "f", "o", "r", " ", "p",
      "r", "o", "c", "e", "d", "u", "r", "e", "s", ":">>

\* Lines 160-162
PromptPlainHead ==
    <<"E", "m", "e", "r", "g", "e", "n", "c", "y", " ", "Q", "u", "e", "s",
      "t", "i", "o", "n", ":", " ">>

PromptPlainTail ==
    <<"\n", "\n", "P", "r", "o", "v", "i", "d", "e", " ", "i", "m", "m",
      "e", "d", "i", "a", "t", "e", " ", "T", "C", "C", "C", " ", "f", "i",
      "e", "l", "d", " ", "g", "u", "i", "d", "a", "n", "c", "e", ":">>

\* Line 183
LLMErrorHead ==
    <<"L", "L", "M", " ", "E", "r", "r", "o", "r", " ", "(">>

LLMErrorMid == <<")", ":", " ">>

\* Line 186
ConnectionErrorHead ==
    <<"C", "o", "n", "n", "e", "c", "t", "i", "o", "n", " ", "E", "r", "r",
      "o", "r", ":", " ">>

\* Lines 152-162
FullPrompt(prompt, context) ==
    IF context # <<>>
    THEN PromptContextHead \o context \o PromptContextMid \o prompt
             \o PromptContextTail
    ELSE PromptPlainHead \o prompt \o PromptPlainTail

\* Lines 165-178: the request posted.
Request(prompt, context) ==
    [url |-> <<Host, "/api/generate">>,
     model |-> Model,
     prompt |-> FullPrompt(prompt, context),
     system |-> SystemPrompt,
     stream |-> FALSE,
     options |-> [num_predict |-> NumPredict, temperature |-> Temperature],
     timeout |-> Timeout]

\* What requests.post does: "ok" is status 200 with a JSON body whose
\* "response" is body; "http" is another status with response.text body;
\* "malformed" is status 200 whose body has no JSON "response"; "transport"
\* and "timeout" are exceptions of requests; body is then str(e).
\* "interrupt" is a KeyboardInterrupt during the call.
Failures == {"http", "malformed", "transport", "timeout"}

\* Lines 180-186: the string returned for an outcome.
ResponseText(outcome) ==
    CASE outcome.kind = "ok" -> outcome.body
      [] outcome.kind = "http" ->
             LLMErrorHead \o Digits(outcome.status) \o LLMErrorMid
                 \o outcome.body
      [] OTHER -> ConnectionErrorHead \o outcome.body

\* A variant of lines 164-186 that posts the request again after a failure.
LLMQueryRetries(prompt, context, outcome) ==
    [request |-> Request(prompt, context),
     calls |-> IF outcome.kind \in Failures THEN 2 ELSE 1,
     raised |-> IF outcome.kind = "interrupt" THEN "KeyboardInterrupt" ELSE "",
     response |-> IF outcome.kind = "interrupt" THEN <<>>
                  ELSE ResponseText(outcome)]

\* Lines 144-186: one requests.post; every Exception is turned into the
\* returned string, a KeyboardInterrupt is not caught.
LLMQuery(prompt, context, outcome) ==
    [request |-> Request(prompt, context),
     calls |-> 1,
     raised |-> IF outcome.kind = "interrupt" THEN "KeyboardInterrupt" ELSE "",
     response |-> IF outcome.kind = "interrupt" THEN <<>>
                  ELSE ResponseText(outcome)]

-----------------------------------------------------------------------------
(* SimpleTCCCCLI                                                           *)

\* Line 68: the default chunk_size, used by SimpleTextSearch.__init__.
DefaultChunkSize == 1000

\* Line 105: the default max_results, used by SimpleTCCCCLI.query.
DefaultMaxResults == 5

\* Lines 228 and 252: search_results[:3]
ContextSources == 3

\* Line 230: result["text"][:600]
ContextTextLimit == 600

\* s.replace(old, new), old non-empty
RECURSIVE Replace(_, _, _)
Replace(s, old, new) ==
    LET occ == Occurrences(s, old)
    IN IF occ = {} THEN s
       ELSE SubSeq(s, 1, Min(occ) - 1) \o new
                \o Replace(Drop(s, Min(occ) + Len(old) - 1), old, new)

\* sep.join(parts)
RECURSIVE Join(_, _)
Join(parts, sep) ==
    IF parts = <<>> THEN <<>>
    ELSE IF Len(parts) = 1 THEN parts[1]
    ELSE parts[1] \o sep \o Join(Tail(parts), sep)

\* Lines 229 and 253: result["page_info"].replace("--- Page", "Page")
PageLabel(result) == Replace(result.page_info, PageToken, <<"P", "a", "g", "e">>)

\* Line 231: f"[Source {i+1} - {page_info}]\\n{text}"
ContextPart(i, result) ==
    <<"[", "S", "o", "u", "r", "c", "e", " ">> \o Digits(i + 1)
        \o <<" ", "-", " ">> \o PageLabel(result) \o <<"]">> \o NewlineLit
        \o Take(result.text, ContextTextLimit)

\* Lines 222-232
Context(search_results) ==
    IF search_results = <<>> THEN <<>>
    ELSE LET top == Take(search_results, ContextSources)
         IN Join([i \in 1..Len(top) |-> ContextPart(i - 1, top[i])],
                 NewlineLit \o NewlineLit)

\* Lines 250-255: the sources printed under the panel.
Sources(search_results) ==
    LET top == Take(search_results, ContextSources)
    IN [i \in 1..Len(top) |->
            [index |-> i, page_info |-> PageLabel(top[i]),
             score |-> top[i].score]]

\* A variant of lines 222-258 that builds the context of an urgent query
\* from its first result only.
QueryResponseUrgentContext(question, urgent, search_results, outcome) ==
    LET context ==
            Context(IF urgent THEN Take(search_results, 1) ELSE search_results)
        llm == LLMQuery(question, context, outcome)
    IN [question |-> question,
        urgent |-> urgent,
        outcome |-> outcome,
        color |-> IF urgent THEN "red" ELSE "yellow",
        search_results |-> search_results,
        context |-> context,
        request |-> llm.request,
        calls |-> llm.calls,
        raised |-> llm.raised,
        response |-> llm.response,
        title |-> IF llm.raised # "" THEN ""
                  ELSE IF urgent THEN "URGENT MEDICAL GUIDANCE"
                  ELSE "TCCC Guidance",
        border_style |-> IF llm.raised # "" THEN ""
                         ELSE IF urgent THEN "red" ELSE "green",
        sources |-> IF llm.raised # "" THEN <<>> ELSE Sources(search_results)]

\* Lines 215-216 and 222-258: what query(question, urgent) does with the
\* search results, the generation call ending as outcome.  The record holds
\* what the call computes, sends, displays and returns; after a
\* KeyboardInterrupt nothing is displayed.
QueryResponse(question, urgent, search_results, outcome) ==
    LET context == Context(search_results)
        llm == LLMQuery(question, context, outcome)
    IN [question |-> question,
        urgent |-> urgent,
        outcome |-> outcome,
        color |-> IF urgent THEN "red" ELSE "yellow",
        search_results |-> search_results,
        context |-> context,
        request |-> llm.request,
        calls |-> llm.calls,
        raised |-> llm.raised,
        response |-> llm.response,
        title |-> IF llm.raised # "" THEN ""
                  ELSE IF urgent THEN "URGENT MEDICAL GUIDANCE"
                  ELSE "TCCC Guidance",
        border_style |-> IF llm.raised # "" THEN ""
                         ELSE IF urgent THEN "red" ELSE "green",
        sources |-> IF llm.raised # "" THEN <<>> ELSE Sources(search_results)]

\* Lines 211-258: query(question, urgent) on the chunks cs.
CLIQuery(question, urgent, cs, outcome) ==
    QueryResponse(question, urgent,
                  SearchKeywords(cs, question, DefaultMaxResults), outcome)

\* A variant of lines 197-209 without the test of line 203.
InitializeWithoutTextCheck(p) ==
    LET extracted == ExtractTextSimple(p)
    IN IF extracted.raised # ""
       THEN [raised |-> extracted.raised, search_engine |-> "None",
             text |-> <<>>, chunks |-> <<>>, builds |-> 0]
       ELSE [raised |-> "", search_engine |-> "SimpleTextSearch",
             text |-> extracted.text,
             chunks |-> CreateChunks(extracted.text, DefaultChunkSize),
             builds |-> 1]

\* Lines 197-209: initialize(); raised is the exception that leaves it.
Initialize(p) ==
    LET extracted == ExtractTextSimple(p)
    IN IF extracted.raised # ""
       THEN [raised |-> extracted.raised, search_engine |-> "None",
             text |-> <<>>, chunks |-> <<>>, builds |-> 0]
       ELSE IF extracted.text = <<>>
       THEN [raised |-> "Exception", search_engine |-> "None",
             text |-> <<>>, chunks |-> <<>>, builds |-> 0]
       ELSE [raised |-> "", search_engine |-> "SimpleTextSearch",
             text |-> extracted.text,
             chunks |-> CreateChunks(extracted.text, DefaultChunkSize),
             builds |-> 1]

\* Line 271
QuitWords ==
    {<<"q", "u", "i", "t">>, <<"e", "x", "i", "t">>, <<"q">>}

\* Line 275
HelpWord == <<"h", "e", "l", "p">>

\* Line 280
UrgentPrefixes ==
    {<<"u", "r", "g", "e", "n", "t", ":">>,
     <<"e", "m", "e", "r", "g", "e", "n", "c", "y", ":">>,
     <<"c", "r", "i", "t", "i", "c", "a", "l", ":">>}

\* Line 280: query.lower().startswith((...))
IsUrgent(q) == \E prefix \in UrgentPrefixes : StartsWith(Lower(q), prefix)

\* Line 282: query.split(':', 1)[1].strip(), for a query that holds a ':'
AfterColon(q) == Strip(Drop(q, Min(Occurrences(q, <<":">>))))

\* Lines 280-284: the question passed to self.query for the stripped line q.
Question(q) == IF IsUrgent(q) THEN AfterColon(q) ELSE q

-----------------------------------------------------------------------------
(* The calls of _create_chunks that are explored: texts put together from  *)
(* up to MaxPieces pieces, and every chunk_size from 0 to MaxChunkSize.    *)

\* The page header that extract_text_simple writes before page 1 (line 45).
PageHeader ==
    <<"\\", "n", "-", "-", "-", " ", "P", "a", "g", "e", " ", "1", " ",
      "-", "-", "-", "\\", "n">>

ChunkPieces == {<<"a">>, <<" ">>, <<".">>, <<"?">>, PageHeader}

PieceSeqs(pieces, n) == UNION {[1..k -> pieces] : k \in 0..n}

ChunkTexts == {Flatten(p) : p \in PieceSeqs(ChunkPieces, MaxPieces)}

ChunkSizes == 0..MaxChunkSize

\* main has not been started: the values of its variables while a single
\* function is explored.
IdleMain ==
    /\ args_query = <<>>
    /\ args_urgent = FALSE
    /\ pdf = [exists |-> FALSE, fitz |-> "ok", pages |-> <<>>]
    /\ search_engine = "None"
    /\ mpc = "idle"
    /\ exit_code = 0
    /\ served = 0
    /\ search_calls = 0
    /\ generation_calls = 0
    /\ builds = 0
    /\ last = <<>>

InitChunk ==
    /\ IdleMain
    /\ text \in ChunkTexts
    /\ chunk_size \in ChunkSizes
    /\ sentences = <<>>
    /\ si = 0
    /\ current_chunk = <<>>
    /\ chunk_id = 0
    /\ chunks = <<>>
    /\ cpc = "split"
    /\ held = <<>>
    /\ chunk_sentences = <<>>
    /\ query = <<>>
    /\ max_results = 0
    /\ query_words = {}
    /\ ki = 0
    /\ scored_chunks = <<>>
    /\ results = <<>>
    /\ spc = "idle"

LoopState ==
    [current_chunk |-> current_chunk, chunk_id |-> chunk_id, chunks |-> chunks]

\* Lines 70-74
ChunkSplit ==
    /\ cpc = "split"
    /\ sentences' = ReSplit(text)
    /\ si' = 1
    /\ current_chunk' = <<>>
    /\ chunk_id' = 0
    /\ chunks' = <<>>
    /\ cpc' = "loop"
    /\ UNCHANGED <<text, chunk_size, held, chunk_sentences, svars, mvars>>

\* Lines 76-93, one iteration, the branch of line 77 taken
ChunkClose ==
    /\ cpc = "loop"
    /\ si <= Len(sentences)
    /\ Overflows(current_chunk, sentences[si], chunk_size)
    /\ LET st == LoopBody(LoopState, sentences[si], chunk_size)
       IN /\ current_chunk' = st.current_chunk
          /\ chunk_id' = st.chunk_id
          /\ chunks' = st.chunks
    /\ chunk_sentences' = Append(chunk_sentences, held)
    /\ held' = <<sentences[si]>>
    /\ si' = si + 1
    /\ UNCHANGED <<text, chunk_size, sentences, cpc, svars, mvars>>

\* Lines 76-93, one iteration, the else branch of line 92 taken
ChunkAppend ==
    /\ cpc = "loop"
    /\ si <= Len(sentences)
    /\ ~Overflows(current_chunk, sentences[si], chunk_size)
    /\ LET st == LoopBody(LoopState, sentences[si], chunk_size)
       IN /\ current_chunk' = st.current_chunk
          /\ chunk_id' = st.chunk_id
          /\ chunks' = st.chunks
    /\ held' = Append(held, sentences[si])
    /\ si' = si + 1
    /\ UNCHANGED <<text, chunk_size, sentences, cpc, chunk_sentences, svars, mvars>>

\* Lines 95-103
ChunkFinal ==
    /\ cpc = "loop"
    /\ si > Len(sentences)
    /\ chunks' = FinalChunks(LoopState)
    /\ chunk_sentences' =
           IF Strip(current_chunk) # <<>>
           THEN Append(chunk_sentences, held) ELSE chunk_sentences
    /\ cpc' = "returned"
    /\ UNCHANGED <<text, chunk_size, sentences, si, current_chunk, chunk_id,
                   held, svars, mvars>>

NextChunk ==
    \/ ChunkSplit
    \/ ChunkClose
    \/ ChunkAppend
    \/ ChunkFinal

SpecChunk == InitChunk /\ [][NextChunk]_vars

-----------------------------------------------------------------------------
(* The calls of search_keywords that are explored: self.chunks made by     *)
(* _create_chunks from a text of up to MaxSearchPieces pieces, a query of  *)
(* SearchQueries and every max_results from 0 to MaxResults.               *)

SearchPieces ==
    {<<"w", "o", "u", "n", "d", ".">>, <<"a", "B", ".">>, <<"s">>, <<" ">>}

SearchTexts == {Flatten(p) : p \in PieceSeqs(SearchPieces, MaxSearchPieces)}

SearchQueries ==
    {<<>>,
     <<"a", "b">>,
     <<"s">>,
     <<"A", "b", " ", " ", "w", "o", "u", "n", "d">>,
     <<"w", "o", "u", "n", "d", " ", "W", "o", "u", "n", "d">>,
     <<"w", "o", "u", "n", "d", "s">>,
     <<"s", "h", "o", "c", "k">>}

InitSearch ==
    /\ IdleMain
    /\ text \in SearchTexts
    /\ chunk_size = SearchChunkSize
    /\ chunks = CreateChunks(text, chunk_size)
    /\ cpc = "returned"
    /\ sentences = <<>>
    /\ si = 0
    /\ current_chunk = <<>>
    /\ chunk_id = 0
    /\ held = <<>>
    /\ chunk_sentences = <<>>
    /\ query \in SearchQueries
    /\ max_results \in 0..MaxResults
    /\ query_words = {}
    /\ ki = 0
    /\ scored_chunks = <<>>
    /\ results = <<>>
    /\ spc = "start"

\* Lines 107-108
SearchStart ==
    /\ spc = "start"
    /\ query_words' = QueryWords(query)
    /\ scored_chunks' = <<>>
    /\ ki' = 1
    /\ spc' = "loop"
    /\ UNCHANGED <<query, max_results, results, cvars, mvars>>

\* Lines 110-130, one iteration, the chunk has a positive score
SearchKeep ==
    /\ spc = "loop"
    /\ ki <= Len(chunks)
    /\ Score(chunks[ki], query, query_words) > 0
    /\ scored_chunks' = KeepScored(scored_chunks, chunks[ki], query, query_words)
    /\ ki' = ki + 1
    /\ UNCHANGED <<query, max_results, query_words, results, spc, cvars, mvars>>

\* Lines 110-130, one iteration, the chunk has score 0
SearchSkip ==
    /\ spc = "loop"
    /\ ki <= Len(chunks)
    /\ Score(chunks[ki], query, query_words) <= 0
    /\ scored_chunks' = KeepScored(scored_chunks, chunks[ki], query, query_words)
    /\ ki' = ki + 1
    /\ UNCHANGED <<query, max_results, query_words, results, spc, cvars, mvars>>

\* Lines 132-134
SearchReturn ==
    /\ spc = "loop"
    /\ ki > Len(chunks)
    /\ scored_chunks' = SortByScore(<<>>, scored_chunks)
    /\ results' = TopResults(scored_chunks, max_results)
    /\ spc' = "returned"
    /\ UNCHANGED <<query, max_results, query_words, ki, cvars, mvars>>

NextSearch ==
    \/ SearchStart
    \/ SearchKeep
    \/ SearchSkip
    \/ SearchReturn

SpecSearch == InitSearch /\ [][NextSearch]_vars

-----------------------------------------------------------------------------
(* The runs of main that are explored: the command lines of ArgQueries     *)
(* with and without --urgent, a PDF of Pdfs, the input lines of Lines and  *)
(* the generation outcomes of Outcomes, up to MaxQueries queries.          *)

\* Page texts.  The long pages make _create_chunks close chunks at the
\* default chunk_size and give result texts beyond the limit of line 230.
Fill(c, n) == [i \in 1..n |-> c]

ShortPage ==
    <<"A", "p", "p", "l", "y", " ", "d", "i", "r", "e", "c", "t", " ", "p",
      "r", "e", "s", "s", "u", "r", "e", " ", "t", "o", " ", "c", "o", "n",
      "t", "r", "o", "l", " ", "b", "l", "e", "e", "d", "i", "n", "g", ".",
      " ", "U", "s", "e", " ", "a", " ", "t", "o", "u", "r", "n", "i", "q",
      "u", "e", "t", " ", "i", "f", " ", "b", "l", "e", "e", "d", "i", "n",
      "g", " ", "i", "s", " ", "s", "e", "v", "e", "r", "e", ".">>

LongPage1 ==
    <<"P", "a", "c", "k", " ", "t", "h", "e", " ", "w", "o", "u", "n", "d",
      "!", " ", "T", "r", "e", "a", "t", " ", "f", "o", "r", " ", "s", "h",
      "o", "c", "k", " ">>
        \o Fill("x", PageFill) \o <<" ", "e", "n", "d", ".">>

LongPage2 ==
    <<"O", "p", "e", "n", " ", "t", "h", "e", " ", "a", "i", "r", "w", "a",
      "y", ".", " ", "D", "r", "e", "s", "s", " ", "t", "h", "e", " ", "w",
      "o", "u", "n", "d", " ", "x", "y", "z", " ">>
        \o Fill("y", PageFill) \o <<" ", "e", "n", "d", ".">>

Pdfs ==
    {[exists |-> FALSE, fitz |-> "ok", pages |-> <<>>],
     [exists |-> TRUE, fitz |-> "ImportError", pages |-> <<>>],
     [exists |-> TRUE, fitz |-> "Exception", pages |-> <<ShortPage>>],
     [exists |-> TRUE, fitz |-> "ok", pages |-> <<>>],
     [exists |-> TRUE, fitz |-> "ok", pages |-> <<<<>>>>],
     [exists |-> TRUE, fitz |-> "ok", pages |-> <<ShortPage>>],
     [exists |-> TRUE, fitz |-> "ok",
      pages |-> <<LongPage1, LongPage2, ShortPage>>]}

ArgQueries ==
    {<<>>,
     <<<<"s", "h", "o", "c", "k">>>>,
     <<<<"B", "l", "e", "e", "d", "i", "n", "g">>, <<"w", "o", "u", "n", "d">>>>}

Lines ==
    {<<>>,
     <<" ", " ">>,
     <<"q">>,
     <<" ", "E", "x", "i", "t", " ">>,
     <<"H", "e", "l", "p">>,
     <<"w", "o", "u", "n", "d", " ", "x", "y", "z">>,
     <<"u", "r", "g", "e", "n", "t", ":", " ", "w", "o", "u", "n", "d", " ",
       "x", "y", "z">>,
     <<"C", "r", "i", "t", "i", "c", "a", "l", ":", "a", "i", "r", "w", "a",
       "y", " ", "s", "h", "o", "c", "k">>,
     <<"e", "m", "e", "r", "g", "e", "n", "c", "y", ":", " ">>,
     <<"u", "r", "g", "e", "n", "t", ":", "q", "u", "i", "t">>,
     <<"n", "o", "t", "h", "i", "n", "g">>}

Outcomes ==
    {[kind |-> "ok", status |-> 200,
      body |-> <<"A", "p", "p", "l", "y", " ", "p", "r", "e", "s", "s", "u",
                 "r", "e">>],
     [kind |-> "http", status |-> 500,
      body |-> <<"o", "v", "e", "r", "l", "o", "a", "d">>],
     [kind |-> "malformed", status |-> 200,
      body |-> <<"'", "r", "e", "s", "p", "o", "n", "s", "e", "'">>],
     [kind |-> "transport", status |-> 0,
      body |-> <<"r", "e", "f", "u", "s", "e", "d">>],
     [kind |-> "timeout", status |-> 0,
      body |-> <<"t", "i", "m", "e", "d", " ", "o", "u", "t">>],
     [kind |-> "interrupt", status |-> 0, body |-> <<>>]}

Init ==
    /\ args_query \in ArgQueries
    /\ args_urgent \in BOOLEAN
    /\ pdf \in Pdfs
    /\ search_engine = "None"
    /\ mpc = "main"
    /\ exit_code = 0
    /\ served = 0
    /\ search_calls = 0
    /\ generation_calls = 0
    /\ builds = 0
    /\ last = <<>>
    /\ text = <<>>
    /\ chunk_size = DefaultChunkSize
    /\ chunks = <<>>
    /\ sentences = <<>>
    /\ si = 0
    /\ current_chunk = <<>>
    /\ chunk_id = 0
    /\ cpc = "idle"
    /\ held = <<>>
    /\ chunk_sentences = <<>>
    /\ query = <<>>
    /\ max_results = DefaultMaxResults
    /\ query_words = {}
    /\ ki = 0
    /\ scored_chunks = <<>>
    /\ results = <<>>
    /\ spc = "idle"

\* What main leaves alone: the locals of the two functions explored alone.
locals == <<chunk_size, sentences, si, current_chunk, chunk_id, cpc, held,
            chunk_sentences, svars>>

\* Lines 326-328 and 336-338: initialize() raises, main exits with code 1.
MainInitializeFails ==
    /\ mpc = "main"
    /\ Initialize(pdf).raised # ""
    /\ mpc' = "exited"
    /\ exit_code' = 1
    /\ UNCHANGED <<args_query, args_urgent, pdf, search_engine, served,
                   search_calls, generation_calls, builds, last, text, chunks,
                   locals>>

\* Lines 326-328: initialize() returns, the search engine is built.
MainInitializeReady ==
    /\ mpc = "main"
    /\ Initialize(pdf).raised = ""
    /\ search_engine' = Initialize(pdf).search_engine
    /\ text' = Initialize(pdf).text
    /\ chunks' = Initialize(pdf).chunks
    /\ builds' = builds + Initialize(pdf).builds
    /\ mpc' = "ready"
    /\ UNCHANGED <<args_query, args_urgent, pdf, exit_code, served,
                   search_calls, generation_calls, last, locals>>

\* What a call of self.query changes, r being what it did.
Served(r) ==
    /\ last' = <<r>>
    /\ served' = served + 1
    /\ search_calls' = search_calls + 1
    /\ generation_calls' = generation_calls + r.calls

\* Lines 330-332 and 336-338: the one-shot query, then the end of main.
\* A KeyboardInterrupt is raised in the model only where line 286 handles
\* it, in interactive().
MainOneShot ==
    /\ mpc = "ready"
    /\ args_query # <<>>
    /\ \E search_results \in {SearchKeywords(chunks, Join(args_query, <<" ">>),
                                              DefaultMaxResults)} :
       \E outcome \in Outcomes :
           /\ outcome.kind # "interrupt"
           /\ LET r == QueryResponse(Join(args_query, <<" ">>), args_urgent,
                                     search_results, outcome)
              IN /\ Served(r)
                 /\ exit_code' = IF r.raised = "" THEN 0 ELSE 1
    /\ mpc' = "exited"
    /\ UNCHANGED <<args_query, args_urgent, pdf, search_engine, builds, text,
                   chunks, locals>>

\* Lines 333-334 and 262: no positional argument, interactive() starts.
MainInteractive ==
    /\ mpc = "ready"
    /\ args_query = <<>>
    /\ mpc' = "prompt"
    /\ UNCHANGED <<args_query, args_urgent, pdf, search_engine, exit_code,
                   served, search_calls, generation_calls, builds, last, text,
                   chunks, locals>>

\* Lines 266-269: an empty line, the loop prompts again.
InputEmpty ==
    /\ mpc = "prompt"
    /\ \E raw \in Lines : Strip(raw) = <<>>
    /\ UNCHANGED vars

\* Lines 271-273: quit, exit or q ends the loop, main returns.
InputQuit ==
    /\ mpc = "prompt"
    /\ \E raw \in Lines :
           /\ Strip(raw) # <<>>
           /\ Lower(Strip(raw)) \in QuitWords
    /\ mpc' = "exited"
    /\ exit_code' = 0
    /\ UNCHANGED <<args_query, args_urgent, pdf, search_engine, served,
                   search_calls, generation_calls, builds, last, text, chunks,
                   locals>>

\* Lines 275-277: help, the loop prompts again.
InputHelp ==
    /\ mpc = "prompt"
    /\ \E raw \in Lines :
           /\ Strip(raw) # <<>>
           /\ Lower(Strip(raw)) \notin QuitWords
           /\ Lower(Strip(raw)) = HelpWord
    /\ UNCHANGED vars

\* Lines 279-290: any other line is a query.  An Exception raised by
\* self.query is printed (line 289) and the loop goes on; a
\* KeyboardInterrupt ends the loop (line 286) and main returns.
InputQuery ==
    /\ mpc = "prompt"
    /\ served < MaxQueries
    /\ \E raw \in Lines :
           /\ Strip(raw) # <<>>
           /\ Lower(Strip(raw)) \notin QuitWords
           /\ Lower(Strip(raw)) # HelpWord
           /\ \E search_results \in {SearchKeywords(chunks, Question(Strip(raw)),
                                                     DefaultMaxResults)} :
              \E outcome \in Outcomes :
                  LET r == QueryResponse(Question(Strip(raw)),
                                         IsUrgent(Strip(raw)),
                                         search_results, outcome)
                  IN /\ Served(r)
                     /\ mpc' = IF r.raised = "KeyboardInterrupt"
                               THEN "exited" ELSE "prompt"
                     /\ exit_code' = IF r.raised = "KeyboardInterrupt"
                                     THEN 0 ELSE exit_code
    /\ UNCHANGED <<args_query, args_urgent, pdf, search_engine, builds, text,
                   chunks, locals>>

\* Lines 266 and 286-288: a KeyboardInterrupt at the prompt ends the loop.
InputInterrupt ==
    /\ mpc = "prompt"
    /\ mpc' = "exited"
    /\ exit_code' = 0
    /\ UNCHANGED <<args_query, args_urgent, pdf, search_engine, served,
                   search_calls, generation_calls, builds, last, text, chunks,
                   locals>>

Next ==
    \/ MainInitializeFails
    \/ MainInitializeReady
    \/ MainOneShot
    \/ MainInteractive
    \/ InputEmpty
    \/ InputQuit
    \/ InputHelp
    \/ InputQuery
    \/ InputInterrupt

Spec == Init /\ [][Next]_vars

-----------------------------------------------------------------------------
(* Properties of _create_chunks, checked under SpecChunk.                  *)

NoDots(s) == SelectSeq(s, LAMBDA c : c # ".")

NoSpace(s) == SelectSeq(s, LAMBDA c : ~IsSpace(c))

\* The texts of the chunks, concatenated in list (chunk_id) order.
JoinedChunkTexts == Flatten([k \in 1..Len(chunks) |-> chunks[k].text])

Last(s) == s[Len(s)]

C2_EmptyTextNoChunks ==
    (cpc = "returned" /\ text = <<>>) => chunks = <<>>

C9_ChunkDataModel ==
    cpc = "returned" =>
        \A k \in 1..Len(chunks) :
            /\ Strip(chunks[k].text) # <<>>
            /\ chunks[k].chunk_id = k - 1

-----------------------------------------------------------------------------
(* Properties of search_keywords, checked under SpecSearch.                *)

\* No whitespace-separated word of the lower-cased query occurs in a
\* lower-cased chunk text.
NoQueryWordInChunks ==
    \A w \in QueryWords(query) :
        \A k \in 1..Len(chunks) : ~Contains(Lower(chunks[k].text), w)

\* No medical term occurs both in the lower-cased query and in a
\* lower-cased chunk text.
NoSharedMedicalTerm ==
    \A t \in MedicalTerms :
        \A k \in 1..Len(chunks) :
            ~(Contains(Lower(query), t) /\ Contains(Lower(chunks[k].text), t))

NoZeroScore == \A r \in 1..Len(results) : results[r].score > 0

\* C3, as stated: when no word of the query occurs in any chunk,
\* search_keywords returns the empty list; and no entry of score 0 is
\* returned.
C3_NoWordNoResult ==
    spc = "returned" =>
        /\ NoQueryWordInChunks => results = <<>>
        /\ NoZeroScore

\* C3, amended: when no word of the query occurs in any chunk and no
\* medical term occurs both in the query and in a chunk, search_keywords
\* returns the empty list; and no entry of score 0 is returned.
C3_NoWordNoTermNoResult ==
    spc = "returned" =>
        /\ (NoQueryWordInChunks /\ NoSharedMedicalTerm) => results = <<>>
        /\ NoZeroScore

\* A search with query words, chunks and max_results > 0 in which no word
\* and no term matches, and one in which results are returned, are both
\* reached; this is the first.
C3_Witness ==
    /\ spc = "returned"
    /\ query_words # {}
    /\ chunks # <<>>
    /\ max_results > 0
    /\ NoQueryWordInChunks
    /\ NoSharedMedicalTerm
    /\ results = <<>>

\* The positions of the chunks of positive score.
PositiveChunks ==
    {k \in 1..Len(chunks) : Score(chunks[k], query, QueryWords(query)) > 0}

\* Entry a is ranked before entry b: greater score, or equal score and
\* smaller chunk_id.
RankedBefore(a, b) ==
    \/ a.score > b.score
    \/ a.score = b.score /\ a.chunk_id < b.chunk_id

EntryOf(k) ==
    ScoredChunk(chunks[k], Score(chunks[k], query, QueryWords(query)))

\* C5: the result of search_keywords is the first max_results entries of
\* the chunks of positive score ranked by score descending, chunks of
\* equal score in ascending chunk_id order.
C5_Ranking ==
    spc = "returned" =>
        /\ Len(results) = Min({max_results, Cardinality(PositiveChunks)})
        /\ \A r \in 1..Len(results) :
               \E k \in PositiveChunks : results[r] = EntryOf(k)
        /\ \A r1, r2 \in 1..Len(results) :
               r1 < r2 => RankedBefore(results[r1], results[r2])
        /\ \A k \in PositiveChunks :
               (\A r \in 1..Len(results) : results[r] # EntryOf(k))
                   => \A r \in 1..Len(results) :
                          RankedBefore(results[r], EntryOf(k))

\* A search whose result is cut to max_results, holds two entries of equal
\* score and starts with a chunk that is not the first of the list.
C5_Witness ==
    /\ spc = "returned"
    /\ Len(results) = max_results
    /\ Cardinality(PositiveChunks) > max_results
    /\ \E r \in 1..(Len(results) - 1) : results[r].score = results[r + 1].score
    /\ results[1].chunk_id > results[2].chunk_id

-----------------------------------------------------------------------------
(* Claims about SimpleTCCCCLI and main, checked under Spec                 *)

\* C6: two runs of SimpleTCCCCLI.query that differ only in the urgent flag
\* produce the same scored chunks, the same context, the same generation
\* request and the same list of sources; urgent changes only the colour,
\* the title and the border of what is displayed.  The run last served is
\* compared with the run of the same question on the same chunks with the
\* flag flipped.
C6_UrgencyNonInterference ==
    last # <<>> =>
        LET r == last[1]
            other == CLIQuery(r.question, ~r.urgent, chunks, r.outcome)
        IN /\ other.search_results = r.search_results
           /\ other.context = r.context
           /\ other.request = r.request
           /\ other.sources = r.sources
           /\ [other EXCEPT !.urgent = r.urgent, !.color = r.color,
                            !.title = r.title,
                            !.border_style = r.border_style] = r
           /\ other.color # r.color
           /\ r.raised = "" => /\ other.title # r.title
                               /\ other.border_style # r.border_style

\* An urgent query was served whose context is built from several results,
\* one of them cut to 600 characters, and whose sources were displayed.
C6_Witness ==
    /\ last # <<>>
    /\ last[1].urgent
    /\ Len(last[1].search_results) >= 2
    /\ \E i \in 1..Len(last[1].search_results) :
           Len(last[1].search_results[i].text) > ContextTextLimit
    /\ last[1].context # <<>>
    /\ last[1].sources # <<>>

\* The string a failed generation call is reported as (lines 183 and 186).
ReportedFailure(outcome) ==
    IF outcome.kind = "http"
    THEN LLMErrorHead \o Digits(outcome.status) \o LLMErrorMid \o outcome.body
    ELSE ConnectionErrorHead \o outcome.body

\* C7: every query served in the interactive loop makes exactly one
\* generation call whatever its outcome; a failed call is returned as the
\* response text, and afterwards the loop is at its prompt again with the
\* same search engine and the same chunk sequence.
C7_OneCallNoRetry ==
    [][(mpc = "prompt" /\ served' = served + 1) =>
           /\ search_calls' = search_calls + 1
           /\ generation_calls' = generation_calls + 1
           /\ last'[1].calls = 1
           /\ last'[1].outcome.kind = "ok" =>
                  /\ last'[1].response = last'[1].outcome.body
                  /\ mpc' = "prompt"
           /\ last'[1].outcome.kind \in Failures =>
                  /\ last'[1].raised = ""
                  /\ last'[1].response = ReportedFailure(last'[1].outcome)
                  /\ mpc' = "prompt"
                  /\ exit_code' = exit_code
                  /\ search_engine' = "SimpleTextSearch"
                  /\ search_engine' = search_engine
                  /\ chunks' = chunks
                  /\ text' = text]_vars

\* The loop is at its prompt after two queries, the last of which ended in
\* a timeout, one generation call having been made for each.
C7_Witness ==
    /\ mpc = "prompt"
    /\ served >= 2
    /\ generation_calls = served
    /\ last[1].outcome.kind = "timeout"
    /\ last[1].response = ConnectionErrorHead \o last[1].outcome.body

\* C8: in interactive mode a line whose query text is empty after trimming
\* and after the urgent prefix has been stripped is ignored: no query with
\* an empty question is served, so neither search_keywords nor the
\* generation call runs for it.
C8_EmptyQueryIgnored ==
    (args_query = <<>> /\ last # <<>>) => last[1].question # <<>>

C10_Ready == search_engine = "SimpleTextSearch"

C10_States ==
    /\ mpc \in {"ready", "prompt"} => C10_Ready
    /\ served > 0 => C10_Ready
    /\ C10_Ready =>
           /\ pdf.exists
           /\ ExtractTextSimple(pdf).raised = ""
           /\ text = ExtractTextSimple(pdf).text
           /\ text # <<>>
           /\ builds = 1
           /\ chunks # <<>>
           /\ mpc = "ready" => chunks = CreateChunks(text, DefaultChunkSize)
    /\ ~C10_Ready =>
           /\ builds = 0
           /\ chunks = <<>>
           /\ served = 0
           /\ search_calls = 0
           /\ generation_calls = 0
           /\ mpc = "exited" => exit_code # 0
    /\ (~pdf.exists \/ ExtractTextSimple(pdf).text = <<>>) =>
           /\ ~C10_Ready
           /\ mpc \in {"main", "exited"}

C10_Steps ==
    /\ C10_Ready =>
           /\ C10_Ready'
           /\ chunks' = chunks
           /\ text' = text
           /\ builds' = builds
    /\ served' # served => (C10_Ready /\ C10_Ready')
    /\ (~C10_Ready /\ ~C10_Ready') => mpc' = "exited"

\* C10: the search engine is built only after extract_text_simple returned
\* a non-empty text, and then holds the chunks of that text; on a missing
\* file or a failed or empty extraction no chunk is built, no query is
\* served and main exits with a non-zero code; every query is served with
\* the search engine built, and once built the search engine and its
\* chunks never change.
C10_Lifecycle == []C10_States /\ [][C10_Steps]_vars

\* main has exited after two queries, the last one failed, served by the
\* search engine built once.
C10_Witness ==
    /\ mpc = "exited"
    /\ C10_Ready
    /\ builds = 1
    /\ served >= 2
    /\ last[1].outcome.kind \in Failures

=============================================================================
